---- MODULE Spec2Model ----
(***************************************************************************)
(* ConnectionManager of mcp_feedback_enhanced/connection_manager.py:       *)
(* session records kept in one JSON file per session id, the heartbeat     *)
(* task of the asyncio event loop, and the signal-driven shutdown.         *)
(*                                                                         *)
(* One step of the model is what runs between two suspension points of     *)
(* the single event loop: a whole synchronous method (stop, the signal     *)
(* handler, get_active_sessions), a whole coroutine that never suspends    *)
(* (create_persistent_session, restore_session, update_session_feedback:   *)
(* their only await is of _save_session_state, which has no await of its   *)
(* own), or one step of a heartbeat task between two sleeps.               *)
(***************************************************************************)
EXTENDS Integers, Sequences, FiniteSets, TLC

VARIABLES
    is_persistent_mode,  \* self.is_persistent_mode
    is_running,          \* self.is_running
    heartbeat_task,      \* self.heartbeat_task: a task id, or NoTask
    current_session,     \* self.current_session: a record, or None
    tasks,               \* the heartbeat_loop tasks created on the event loop
    disk,                \* session_store_path: session id -> file content
    now,                 \* the wall clock read by time.time()
    issued,              \* the ids uuid.uuid4() has returned so far
    proc,                \* the process: "alive", "exit0", "crashed"
    loss,                \* the handle_connection_loss call in progress
    wrapper,             \* the with_persistent_connection wrapper call in progress
    cleanup,             \* per process, its cleanup_old_sessions call in progress
    purged,              \* history: the ids whose file a cleanup has unlinked
    peer,                \* another process's manager: its session, its save in progress
    stop_returned,       \* history: stop() returned normally, no start since
    last                 \* history: the last call, its inputs and its outcome

vars == <<is_persistent_mode, is_running, heartbeat_task, current_session,
          tasks, disk, now, issued, proc, loss, wrapper, cleanup, purged, peer,
          stop_returned, last>>

(***************************************************************************)
(* Bounds of the model                                                     *)
(***************************************************************************)
MaxSessions == 2
MaxTasks == 2
MaxTime == 30

(***************************************************************************)
(* Program constants                                                       *)
(***************************************************************************)
heartbeat_interval == 30
ActiveWindow == 86400

\* str(uuid.uuid4()): the ids are strings, the names of the session files
SessionIds == {ToString(i) : i \in 1..MaxSessions}
TaskIds == 1..MaxTasks
NoTask == 0

(***************************************************************************)
(* Python values, tagged with their type                                   *)
(***************************************************************************)
None == [py |-> "None"]
PyStr(s) == [py |-> "str", v |-> s]
PyFloat(x) == [py |-> "float", v |-> x]
PyList(q) == [py |-> "list", v |-> q]

\* A str holding a lone surrogate, as os.fsdecode gives for a path that is
\* not valid UTF-8; the strict utf-8 codec of open() cannot encode it.
SurrogateDir == "/tmp/\\udcff"
ProjectDirs == {"/tmp/proj", SurrogateDir}
Summaries == {"test"}
Feedbacks == {"looks good", "redo"}
ImageLists == {<<>>, <<PyStr("img0")>>}

(***************************************************************************)
(* json.dump / json.load and the text file                                 *)
(***************************************************************************)
Absent == [file |-> "absent"]
Truncated == [file |-> "truncated"]
Text(doc) == [file |-> "text", doc |-> doc]

RECURSIVE json_encode(_)
json_encode(v) ==
    CASE v.py = "None" -> [js |-> "null"]
      [] v.py = "str" -> [js |-> "string", v |-> v.v]
      [] v.py = "float" -> [js |-> "number", v |-> v.v]
      [] v.py = "list" ->
            [js |-> "array", v |-> [i \in DOMAIN v.v |-> json_encode(v.v[i])]]

RECURSIVE json_decode(_)
json_decode(j) ==
    CASE j.js = "null" -> None
      [] j.js = "string" -> PyStr(j.v)
      [] j.js = "number" -> PyFloat(j.v)
      [] j.js = "array" -> PyList([i \in DOMAIN j.v |-> json_decode(j.v[i])])

\* json.dump(self.current_session, f, ensure_ascii=False, indent=2)
json_dump(rec) == [k \in DOMAIN rec |-> json_encode(rec[k])]
\* json.load(f) of a complete document
json_load(doc) == [k \in DOMAIN doc |-> json_decode(doc[k])]

\* The utf-8 codec of the file: a str with a lone surrogate raises
\* UnicodeEncodeError when it is written (ensure_ascii=False keeps it raw).
RECURSIVE Utf8Encodable(_)
Utf8Encodable(v) ==
    CASE v.py = "str" -> v.v # SurrogateDir
      [] v.py = "list" -> \A i \in DOMAIN v.v : Utf8Encodable(v.v[i])
      [] OTHER -> TRUE
RecordEncodable(rec) == \A k \in DOMAIN rec : Utf8Encodable(rec[k])

IoOutcomes == {"ok", "open_fails", "write_fails"}
\* The disk either takes the write or refuses to open the file
OpenOutcomes == {"ok", "open_fails"}

\* How a save went, given the disk's answer io:
\*   "none" no session, nothing to save;  "saved" the file is complete;
\*   "open_failed" open() raised, the file is as before;
\*   "write_failed" / "encode_failed" open() truncated the file and the
\*   dump raised part way. Every exception is caught and only logged.
SaveResult(cur, io) ==
    IF cur = None THEN "none"
    ELSE IF io = "open_fails" THEN "open_failed"
    ELSE IF io = "write_fails" THEN "write_failed"
    ELSE IF ~RecordEncodable(cur) THEN "encode_failed"
    ELSE "saved"

\* The saves that raised inside _save_session_state
SaveFailed(res) == res \in {"open_failed", "write_failed", "encode_failed"}

\* _save_session_state: the disk after saving cur
SaveSessionState(d, cur, io) ==
    LET res == SaveResult(cur, io) IN
    IF res \in {"none", "open_failed"} THEN d
    ELSE IF res = "saved"
         THEN [d EXCEPT ![cur.session_id.v] = Text(json_dump(cur))]
         ELSE [d EXCEPT ![cur.session_id.v] = Truncated]

\* The record a complete file holds
FileRecord(f) == json_load(f.doc)
Readable(f) == f.file = "text"

(***************************************************************************)
(* History record of the last call                                         *)
(***************************************************************************)
Call(op, outcome, value, save) ==
    [op |-> op, outcome |-> outcome, value |-> value, save |-> save]

(***************************************************************************)
(* Initial state: __init__                                                 *)
(***************************************************************************)
NewTask == [st |-> "unused", cancel |-> FALSE, wake |-> 0]

\* No handle_connection_loss call was made yet: of a call, `max` is
\* max_reconnect_attempts, `probe` the _test_connection in use, `attempt`
\* the loop variable, `probes` and `failures` the calls of _test_connection
\* and those that did not return True, `sleeps` the delays asked of
\* asyncio.sleep, `waited` the time slept, `result` the value returned
NoLoss ==
    [pc |-> "idle", caller |-> "none", max |-> 0, probe |-> "stock",
     attempt |-> 0, probes |-> 0, failures |-> 0, sleeps |-> <<>>,
     waited |-> 0, result |-> None]

\* No wrapped call was made yet: of a call, `calls` counts the invocations
\* of func, `losses` the calls of handle_connection_loss, `first` and
\* `second` are the outcomes of the two invocations, `outcome` what the
\* wrapper gave its caller
NoWrapper ==
    [pc |-> "idle", calls |-> 0, losses |-> 0, first |-> None,
     second |-> None, outcome |-> None]

\* The processes that share session_store_path: "own" runs the manager
\* of this model, "other" is a second process on the same directory
Procs == {"own", "other"}

\* No cleanup_old_sessions call was made yet: of a call, `current_time`
\* and `max_age_seconds` are its two locals, `files` what is left of the
\* listing glob gave, `caught` the files whose handling raised an exception
\* that was caught and logged, `unlinked` the files it removed, `raised`
\* whether it raised to its caller, `before` and `after` the store as the
\* call found it and left it, `prev` the process's call before this one,
\* `joint` whether a call of the other process ran during this one
NoCleanup ==
    [pc |-> "idle", current_time |-> 0, max_age_seconds |-> 0,
     files |-> <<>>, caught |-> {}, unlinked |-> {}, raised |-> FALSE,
     before |-> <<>>, after |-> <<>>, prev |-> <<>>, joint |-> FALSE]

\* The other process's manager has no session and no save in progress;
\* `old` is the record its file held when the save in progress opened it
NoPeer == [pc |-> "idle", current_session |-> None, old |-> None]

Init ==
    /\ is_persistent_mode = FALSE
    /\ is_running = FALSE
    /\ heartbeat_task = NoTask
    /\ current_session = None
    /\ tasks = [t \in TaskIds |-> NewTask]
    /\ disk = [i \in SessionIds |-> Absent]
    /\ now = 0
    /\ issued = {}
    /\ proc = "alive"
    /\ loss = NoLoss
    /\ wrapper = NoWrapper
    /\ cleanup = [p \in Procs |-> NoCleanup]
    /\ purged = {}
    /\ peer = NoPeer
    /\ stop_returned = FALSE
    /\ last = Call("init", "returned", None, "none")

Alive == proc = "alive"

\* enable_persistent_mode
EnablePersistentMode ==
    /\ Alive
    /\ UNCHANGED <<loss, wrapper, cleanup, purged, peer>>
    /\ is_persistent_mode' = TRUE
    /\ last' = Call("enable_persistent_mode", "returned", None, "none")
    /\ UNCHANGED <<is_running, heartbeat_task, current_session, tasks, disk,
                   now, issued, proc, stop_returned>>

(***************************************************************************)
(* The heartbeat: start_heartbeat, heartbeat_loop, _send_heartbeat         *)
(***************************************************************************)
\* asyncio.create_task gives a new task; its first step is still to run
FreeTasks == {t \in TaskIds : tasks[t].st = "unused"}
FirstFreeTask == CHOOSE t \in FreeTasks : \A u \in FreeTasks : t <= u

\* `if not self.is_persistent_mode: return`
HeartbeatEnabled_Always == TRUE
HeartbeatEnabled == is_persistent_mode

\* The body of start_heartbeat, shared by the direct call and the wrapper:
\* a no-op unless persistent mode is on
StartHeartbeatBody ==
    /\ HeartbeatEnabled => FreeTasks # {}
    /\ IF HeartbeatEnabled
       THEN /\ is_running' = TRUE
            /\ tasks' = [tasks EXCEPT ![FirstFreeTask] =
                            [st |-> "pending", cancel |-> FALSE, wake |-> 0]]
            /\ heartbeat_task' = FirstFreeTask
            /\ stop_returned' = FALSE
       ELSE UNCHANGED <<is_running, tasks, heartbeat_task, stop_returned>>

\* start_heartbeat
StartHeartbeat ==
    /\ Alive
    /\ UNCHANGED <<loss, wrapper, cleanup, purged, peer>>
    /\ StartHeartbeatBody
    /\ last' = Call("start_heartbeat", "returned", None, "none")
    /\ UNCHANGED <<is_persistent_mode, current_session, disk, now, issued, proc>>

\* asyncio.sleep(self.heartbeat_interval) is over: the task is woken and
\* its next step is scheduled. A cancelled sleep never completes.
TimerFire(t) ==
    /\ Alive
    /\ UNCHANGED <<loss, wrapper, cleanup, purged, peer>>
    /\ tasks[t].st = "sleeping"
    /\ ~tasks[t].cancel
    /\ now >= tasks[t].wake
    /\ tasks' = [tasks EXCEPT ![t].st = "woken"]
    /\ UNCHANGED <<is_persistent_mode, is_running, heartbeat_task,
                   current_session, disk, now, issued, proc, stop_returned, last>>

\* `while self.is_running:` (before sleeping)
LoopCondition == is_running
\* `if self.is_running:` (right after waking)
RecheckAfterWake_Missing == TRUE
RecheckAfterWake == is_running

\* _send_heartbeat: the session after the tick
SendHeartbeatSession_Stale(cur, t) == cur
SendHeartbeatSession_Recreated(cur, t) ==
    IF cur = None THEN cur
    ELSE [cur EXCEPT !.last_heartbeat = PyFloat(t), !.created_at = PyFloat(t)]
SendHeartbeatSession(cur, t) ==
    IF cur = None THEN cur ELSE [cur EXCEPT !.last_heartbeat = PyFloat(t)]

\* Whether the exception of a failed save leaves _send_heartbeat and the
\* loop: never, it is caught and logged in _save_session_state (and would
\* be again in _send_heartbeat and in heartbeat_loop)
TickRaises_Uncaught(res) == SaveFailed(res)
TickRaises(res) == FALSE

\* One step of a heartbeat_loop task, from the point it was suspended at to
\* its next sleep or its end. A cancelled task gets CancelledError at its
\* await (or before its first step) and breaks out of the loop.
HeartbeatStep(t, io) ==
    /\ Alive
    /\ UNCHANGED <<loss, wrapper, cleanup, purged, peer>>
    /\ \/ tasks[t].st \in {"pending", "woken"}
       \/ tasks[t].st = "sleeping" /\ tasks[t].cancel
    /\ LET fire == ~tasks[t].cancel /\ tasks[t].st = "woken" /\ RecheckAfterWake
           cur == IF fire THEN SendHeartbeatSession(current_session, now)
                  ELSE current_session
           raised == fire /\ TickRaises(SaveResult(cur, io))
           again == ~tasks[t].cancel /\ ~raised /\ LoopCondition
       IN /\ current_session' = cur
          /\ disk' = IF fire THEN SaveSessionState(disk, cur, io) ELSE disk
          /\ tasks' = [tasks EXCEPT ![t] =
                IF again
                THEN [st |-> "sleeping", cancel |-> FALSE,
                      wake |-> now + heartbeat_interval]
                ELSE [st |-> "done", cancel |-> FALSE, wake |-> 0]]
          /\ last' = IF fire
                     THEN Call("heartbeat", "returned", None, SaveResult(cur, io))
                     ELSE Call("heartbeat_loop", "returned", tasks[t].st, "none")
    /\ UNCHANGED <<is_persistent_mode, is_running, heartbeat_task, now,
                   issued, proc, stop_returned>>

\* The wall clock moves on
ClockAdvance ==
    /\ Alive
    /\ UNCHANGED <<loss, wrapper, cleanup, purged, peer>>
    /\ now + heartbeat_interval <= MaxTime
    /\ now' = now + heartbeat_interval
    /\ UNCHANGED <<is_persistent_mode, is_running, heartbeat_task,
                   current_session, tasks, disk, issued, proc, stop_returned, last>>

(***************************************************************************)
(* stop and the signal handler                                             *)
(***************************************************************************)
\* The context stop() is called in: "loop" while the event loop is running
\* (from a coroutine, a callback, or a signal handler that interrupts the
\* loop), "sync" when no event loop is running in the thread.
Contexts == {"loop", "sync"}

\* heartbeat_task.cancel(): a request; the task ends at its next step
CancelTask(ts, h) ==
    IF h # NoTask /\ ts[h].st \in {"pending", "sleeping", "woken"}
    THEN [ts EXCEPT ![h].cancel = TRUE]
    ELSE ts

\* loop.run_until_complete on a new loop raises RuntimeError("Cannot run
\* the event loop while another loop is running") inside a running loop
StopRaises(ctx) == current_session # None /\ ctx = "loop"

StopOutcome(ctx) == IF StopRaises(ctx) THEN "raised" ELSE "returned"

StopSaveResult(ctx, io) ==
    IF StopRaises(ctx) THEN "none" ELSE SaveResult(current_session, io)

\* The body of stop(), shared by the direct call and the signal handler
StopBody(ctx, io) ==
    /\ is_running' = FALSE
    /\ tasks' = CancelTask(tasks, heartbeat_task)
    /\ disk' = IF StopRaises(ctx) THEN disk
               ELSE SaveSessionState(disk, current_session, io)
    /\ stop_returned' = IF StopRaises(ctx) THEN stop_returned ELSE TRUE
    /\ UNCHANGED <<is_persistent_mode, heartbeat_task, current_session, now, issued>>

Stop(ctx, io) ==
    /\ Alive
    /\ UNCHANGED <<loss, wrapper, cleanup, purged, peer>>
    /\ StopBody(ctx, io)
    /\ last' = Call("stop", StopOutcome(ctx), ctx, StopSaveResult(ctx, io))
    /\ UNCHANGED proc

\* Where a signal finds the running event loop: idle in its selector, or
\* inside a callback, whose exceptions the loop catches and logs
SignalPoints == {"idle", "callback"}

\* _signal_handler: stop(), then sys.exit(0). An exception of stop() leaves
\* the handler before sys.exit(0) is reached: it ends the idle event loop
\* (the process dies of the RuntimeError, exit status 1), or is caught by
\* the loop around the interrupted callback (the process goes on).
ExitAfterSignal(ctx, at) ==
    IF ~StopRaises(ctx) THEN "exit0"
    ELSE IF at = "callback" THEN "alive" ELSE "crashed"

SignalHandler(ctx, at, io) ==
    /\ Alive
    /\ UNCHANGED <<loss, wrapper, cleanup, purged, peer>>
    /\ is_persistent_mode
    /\ StopBody(ctx, io)
    /\ proc' = ExitAfterSignal(ctx, at)
    /\ last' = Call("signal", StopOutcome(ctx), ctx, StopSaveResult(ctx, io))

(***************************************************************************)
(* Sessions: create, restore, feedback update, listing                     *)
(***************************************************************************)
\* uuid.uuid4(): an id never returned before
uuid4(used) == SessionIds \ used

\* The time that may pass between two consecutive reads of time.time()
ReadGaps == {0, 1}

\* The dict literal of create_persistent_session; t1 and t2 are its two
\* reads of time.time(), in that order
NewSession(id, project_directory, summary, t1, t2) ==
    [session_id |-> PyStr(id),
     project_directory |-> PyStr(project_directory),
     summary |-> PyStr(summary),
     created_at |-> PyFloat(t1),
     last_heartbeat |-> PyFloat(t2),
     status |-> PyStr("active"),
     feedback_result |-> None,
     images |-> PyList(<<>>),
     command_logs |-> PyList(<<>>)]

\* `self.current_session = session_data`: the new record takes the place
\* of whatever session was current
NewCurrent_KeepOld(old, new) == IF old = None THEN new ELSE old
NewCurrent(old, new) == new

\* create_persistent_session
CreateSession(id, project_directory, summary, gap, io) ==
    /\ Alive
    /\ UNCHANGED <<loss, wrapper, cleanup, purged, peer>>
    /\ id \in uuid4(issued)
    /\ now + gap <= MaxTime + 1
    /\ LET cur == NewCurrent(current_session,
                  NewSession(id, project_directory, summary, now, now + gap))
       IN /\ current_session' = cur
          /\ disk' = SaveSessionState(disk, cur, io)
          /\ last' = Call("create_persistent_session", "returned",
                          [id |-> id, project_directory |-> project_directory,
                           summary |-> summary],
                          SaveResult(cur, io))
    /\ now' = now + gap
    /\ issued' = issued \cup {id}
    /\ UNCHANGED <<is_persistent_mode, is_running, heartbeat_task, tasks,
                   proc, stop_returned>>

ReadOutcomes == {"ok", "read_fails"}

\* What restore_session returns: the loaded record, or None when the file
\* is missing, cannot be read or cannot be parsed
RestoreResult(d, id, io) ==
    IF io = "ok" /\ Readable(d[id]) THEN FileRecord(d[id]) ELSE None

\* `self.current_session = session_data` is reached only after json.load
\* has returned: on the two paths that return None it is never executed
RestoredCurrent_Cleared(cur, res) == res
RestoredCurrent(cur, res) == IF res = None THEN cur ELSE res

\* restore_session: a loaded record becomes the current session
RestoreSession(id, io) ==
    /\ Alive
    /\ UNCHANGED <<loss, wrapper, cleanup, purged, peer>>
    /\ LET res == RestoreResult(disk, id, io)
       IN /\ current_session' = RestoredCurrent(current_session, res)
          /\ last' = Call("restore_session", "returned",
                          [id |-> id, result |-> res], "none")
    /\ UNCHANGED <<is_persistent_mode, is_running, heartbeat_task, tasks,
                   disk, now, issued, proc, stop_returned>>

\* The three assignments of update_session_feedback
FeedbackSession_StatusOnly(cur, feedback, images) ==
    [cur EXCEPT !.images = PyList(images), !.status = PyStr("completed")]
FeedbackSession(cur, feedback, images) ==
    [cur EXCEPT !.feedback_result = PyStr(feedback),
                !.images = PyList(images),
                !.status = PyStr("completed")]

\* update_session_feedback(feedback, images). The method has no session id
\* parameter: `target` is the session the caller means, which the method
\* never sees; it is kept in the history only.
UpdateSessionFeedback(target, feedback, images, io) ==
    /\ Alive
    /\ UNCHANGED <<loss, wrapper, cleanup, purged, peer>>
    /\ target \in issued
    /\ LET cur == IF current_session = None THEN None
                  ELSE FeedbackSession(current_session, feedback, images)
       IN /\ current_session' = cur
          /\ disk' = SaveSessionState(disk, cur, io)
          /\ last' = Call("update_session_feedback", "returned",
                          [target |-> target, feedback |-> PyStr(feedback),
                           images |-> PyList(images)],
                          SaveResult(cur, io))
    /\ UNCHANGED <<is_persistent_mode, is_running, heartbeat_task, tasks,
                   now, issued, proc, stop_returned>>

\* The files glob("*.json") lists, in every order the directory may give
StoredIds(d) == {i \in SessionIds : d[i] # Absent}
Listings(d) ==
    {q \in [1..Cardinality(StoredIds(d)) -> StoredIds(d)] :
        \A i, j \in DOMAIN q : i # j => q[i] # q[j]}

\* `time.time() - session_data.get("last_heartbeat", 0) < 86400`
InActiveWindow(rec, t) == t - rec.last_heartbeat.v < ActiveWindow

\* get_active_sessions over the listing `order`: the one try block is
\* around the whole loop, so the first file that cannot be parsed ends it
RECURSIVE ActiveSessions(_, _, _)
ActiveSessions(d, order, t) ==
    IF order = <<>> THEN <<>>
    ELSE IF ~Readable(d[Head(order)]) THEN <<>>
    ELSE LET rec == FileRecord(d[Head(order)])
         IN (IF InActiveWindow(rec, t) THEN <<rec>> ELSE <<>>)
                \o ActiveSessions(d, Tail(order), t)

\* get_active_sessions
GetActiveSessions(order) ==
    /\ Alive
    /\ UNCHANGED <<loss, wrapper, cleanup, purged, peer>>
    /\ order \in Listings(disk)
    /\ last' = [Call("get_active_sessions", "returned",
                     ActiveSessions(disk, order, now), "none")
                 EXCEPT !.op = "get_active_sessions"]
    /\ UNCHANGED <<is_persistent_mode, is_running, heartbeat_task,
                   current_session, tasks, disk, now, issued, proc, stop_returned>>

(***************************************************************************)
(* Spec: the life cycle. Heartbeat tasks, stop and the signal handler      *)
(* run against the session calls of one caller.                            *)
(***************************************************************************)
Next ==
    \/ EnablePersistentMode
    \/ StartHeartbeat
    \/ \E t \in TaskIds : TimerFire(t)
    \/ \E t \in TaskIds, io \in OpenOutcomes : HeartbeatStep(t, io)
    \/ ClockAdvance
    \/ \E ctx \in Contexts, io \in OpenOutcomes : Stop(ctx, io)
    \/ \E ctx \in Contexts, at \in SignalPoints, io \in OpenOutcomes :
            SignalHandler(ctx, at, io)
    \/ \E id \in SessionIds, io \in OpenOutcomes :
            CreateSession(id, "/tmp/proj", "test", 0, io)
    \/ \E id \in SessionIds, io \in ReadOutcomes : RestoreSession(id, io)
    \/ \E target \in SessionIds, io \in OpenOutcomes :
            UpdateSessionFeedback(target, "looks good", <<>>, io)

Spec == Init /\ [][Next]_vars

(***************************************************************************)
(* Claims checked under Spec                                               *)
(***************************************************************************)
OnDisk(cur) == disk[cur.session_id.v] = Text(json_dump(cur))
StopStep == \E ctx \in Contexts, io \in OpenOutcomes : Stop(ctx, io)

\* C1: once stop() has returned, and until the heartbeat is started again,
\* no heartbeat tick fires (no _send_heartbeat runs), whatever point of its
\* sleep/wake cycle each heartbeat task had reached.
C1_NoTickAfterStop == ~(stop_returned /\ last.op = "heartbeat")

\* The race: the sleep of a heartbeat task was over when stop() returned;
\* the task has run its next step since, with a session to write to, and
\* ended without a tick.
C1_Witness ==
    /\ stop_returned
    /\ last.op = "heartbeat_loop"
    /\ last.value = "woken"
    /\ current_session # None
    /\ \E t \in TaskIds : tasks[t].st = "done"

\* C2: in the state where stop() returns, the heartbeat task has ended.
C2_StopAwaitsTermination ==
    (last.op = "stop" /\ last.outcome = "returned" /\ heartbeat_task # NoTask)
        => tasks[heartbeat_task].st = "done"

\* C3: in every calling context stop() returns normally, and with a current
\* session and no failure of the disk the file of the session then holds
\* the in-memory record.
C3_StopPersists ==
    (last.op = "stop" /\ current_session # None /\ ~SaveFailed(last.save))
        => (last.outcome = "returned" /\ OnDisk(current_session))

\* C4: of two consecutive stop() calls neither raises, and the second one
\* leaves the heartbeat state, the current session and the disk unchanged.
C4_StopIdempotent ==
    [][(last.op = "stop" /\ StopStep)
        => /\ last.outcome = "returned"
           /\ last'.outcome = "returned"
           /\ UNCHANGED <<is_running, heartbeat_task, tasks,
                          current_session, disk>>]_vars

\* C5: after a signal in persistent mode the handler has run stop() to its
\* end and the process has exited with status 0, the session flushed.
C5_SignalFlushThenExit ==
    last.op = "signal"
        => /\ proc = "exit0"
           /\ (current_session # None /\ ~SaveFailed(last.save))
                  => OnDisk(current_session)

\* The current session is the session `id`
IsCurrent(cur, id) == cur # None /\ cur.session_id.v = id
Completed(rec) == rec.status = PyStr("completed")

\* C12: for every session id the status never goes from completed back to
\* active, neither in the current-session record nor in the file, over
\* create, restore, feedback update, heartbeat ticks and stop with the
\* saves free to fail.
C12_StatusIrreversible ==
    [][\A id \in SessionIds :
        /\ (/\ IsCurrent(current_session, id) /\ Completed(current_session)
            /\ IsCurrent(current_session', id))
               => Completed(current_session')
        /\ (/\ Readable(disk[id]) /\ Completed(FileRecord(disk[id]))
            /\ Readable(disk'[id]))
               => Completed(FileRecord(disk'[id]))]_vars

\* The records of the program: the current session and the complete files
Records ==
    (IF current_session = None THEN {} ELSE {current_session})
        \cup {FileRecord(disk[id]) : id \in {i \in SessionIds : Readable(disk[i])}}

\* C14: in every reachable state every session record, in memory and on
\* disk, with status=completed has a feedback_result that is not None.
C14_CompletedHasFeedback ==
    \A rec \in Records : Completed(rec) => rec.feedback_result # None

\* A completed record is current and in its file, and a heartbeat tick
\* has rewritten it since the feedback update
C14_Witness ==
    /\ last.op = "heartbeat"
    /\ current_session # None
    /\ Completed(current_session)
    /\ OnDisk(current_session)

\* C15: the clock never going back, the last_heartbeat of the current
\* (active) session record of an id never decreases over a step, be it a
\* heartbeat tick, a feedback update, a restore or stop.
C15_LastHeartbeatMonotonic ==
    [][\A id \in SessionIds :
        (/\ IsCurrent(current_session, id)
         /\ current_session.status = PyStr("active")
         /\ IsCurrent(current_session', id))
            => current_session'.last_heartbeat.v
                   >= current_session.last_heartbeat.v]_vars

\* The fields of a record that are fixed at its creation
Immutable(rec) ==
    <<rec.session_id, rec.project_directory, rec.summary, rec.created_at>>

\* C17: session_id, project_directory, summary and created_at of a session
\* never change: over every step (heartbeat tick, feedback update, stop,
\* save) that changes the current session or a file, the current-session
\* record of an id and the complete file of an id keep them, the file of
\* an id carries that id, and file and memory agree on them.
C17_ImmutableFields ==
    [][\A id \in SessionIds :
        /\ (/\ current_session' # current_session
            /\ IsCurrent(current_session, id) /\ IsCurrent(current_session', id))
               => Immutable(current_session') = Immutable(current_session)
        /\ (disk'[id] # disk[id] /\ Readable(disk'[id]))
               => LET new == FileRecord(disk'[id])
                  IN /\ new.session_id = PyStr(id)
                     /\ Readable(disk[id])
                            => Immutable(new) = Immutable(FileRecord(disk[id]))
        /\ (/\ current_session' # current_session \/ disk'[id] # disk[id]
            /\ IsCurrent(current_session', id) /\ Readable(disk'[id]))
               => Immutable(FileRecord(disk'[id])) = Immutable(current_session')
       ]_vars

\* A heartbeat tick has rewritten, later than its creation, a session that
\* a feedback update had completed
C17_Witness ==
    /\ last.op = "heartbeat"
    /\ last.save = "saved"
    /\ current_session # None
    /\ current_session.created_at.v < current_session.last_heartbeat.v
    /\ current_session.feedback_result # None

\* A heartbeat task that was created and has not ended
LiveTask == \E t \in TaskIds : tasks[t].st \in {"pending", "sleeping", "woken"}

\* C20: the monitor is Running (is_running True) or Stopped (False); it
\* becomes Running only in start_heartbeat and Stopped only in stop(),
\* called directly or by the signal handler; and in every state is_running
\* holds exactly when a heartbeat task is alive.
C20_RunningIffTaskAlive ==
    [][/\ is_running' \in BOOLEAN
       /\ (~is_running /\ is_running') => last'.op = "start_heartbeat"
       /\ (is_running /\ ~is_running') => last'.op \in {"stop", "signal"}
       /\ is_running' <=> LiveTask']_vars

\* C21: without persistent mode start_heartbeat is a no-op: is_running
\* stays False, no task is created, the current session and the files are
\* left alone; and as long as persistent mode is off no heartbeat task
\* exists and no step of a heartbeat loop has run.
C21_StartNoOpUnlessPersistent ==
    [][/\ (StartHeartbeat /\ last'.op = "start_heartbeat" /\ ~is_persistent_mode)
            => /\ ~is_running'
               /\ UNCHANGED <<is_running, heartbeat_task, tasks,
                              current_session, disk>>
       /\ ~is_persistent_mode'
            => /\ ~is_running'
               /\ heartbeat_task' = NoTask
               /\ \A t \in TaskIds : tasks'[t] = NewTask
               /\ last'.op \notin {"heartbeat", "heartbeat_loop"}]_vars

\* start_heartbeat has returned with persistent mode off and a session
\* current
C21_Witness ==
    /\ last.op = "start_heartbeat"
    /\ ~is_persistent_mode
    /\ current_session # None
    /\ OnDisk(current_session)

(***************************************************************************)
(* SpecStore: the session store. Every input of the session calls, the     *)
(* directory listing in every order, the clock between two reads.          *)
(***************************************************************************)
NextStore ==
    \/ ClockAdvance
    \/ \E id \in SessionIds, dir \in ProjectDirs, summary \in Summaries,
          gap \in ReadGaps, io \in IoOutcomes :
            CreateSession(id, dir, summary, gap, io)
    \/ \E id \in SessionIds, io \in ReadOutcomes : RestoreSession(id, io)
    \/ \E target \in SessionIds, feedback \in Feedbacks, images \in ImageLists,
          io \in IoOutcomes :
            UpdateSessionFeedback(target, feedback, images, io)
    \/ \E order \in Listings(disk) : GetActiveSessions(order)

SpecStore == Init /\ [][NextStore]_vars

(***************************************************************************)
(* Claims checked under SpecStore                                          *)
(***************************************************************************)
CreateStep == last'.op = "create_persistent_session" /\ issued' # issued

\* C6: whenever create_persistent_session or update_session_feedback has
\* returned normally, the file of the current session holds the in-memory
\* record.
C6_DurableOnReturn ==
    (/\ last.op \in {"create_persistent_session", "update_session_feedback"}
     /\ last.outcome = "returned"
     /\ current_session # None)
        => OnDisk(current_session)

\* C7: create_persistent_session builds a record with an id no stored or
\* current session has, the given project_directory and summary,
\* status=active, feedback_result=None, empty images and command_logs, and
\* created_at equal to last_heartbeat.
C7_NewSessionRecord ==
    [][CreateStep =>
        LET new == current_session'
            id == new.session_id.v
        IN /\ id = last'.value.id
           /\ id \notin StoredIds(disk)
           /\ current_session # None => id # current_session.session_id.v
           /\ new.project_directory = PyStr(last'.value.project_directory)
           /\ new.summary = PyStr(last'.value.summary)
           /\ new.status = PyStr("active")
           /\ new.feedback_result = None
           /\ new.images = PyList(<<>>)
           /\ new.command_logs = PyList(<<>>)
           /\ new.created_at = new.last_heartbeat]_vars

\* C8: right after create_persistent_session has returned an id (its save
\* done), get_active_sessions returns a list holding the record of that
\* id, whatever else the store holds and in whatever order it is listed.
C8_CreatedIsListed ==
    (last.op = "create_persistent_session" /\ last.save = "saved")
        => \A order \in Listings(disk) :
              \E i \in DOMAIN ActiveSessions(disk, order, now) :
                 ActiveSessions(disk, order, now)[i] = current_session

\* C9: after update_session_feedback was called for the session `target`
\* that create_persistent_session returned (its file intact, the save of
\* the update done), restore_session(target) returns a record with
\* status=completed and the feedback and images of the call.
C9_FeedbackReachesTarget ==
    (/\ last.op = "update_session_feedback"
     /\ last.save = "saved"
     /\ Readable(disk[last.value.target]))
        => LET rec == RestoreResult(disk, last.value.target, "ok")
           IN /\ rec.status = PyStr("completed")
              /\ rec.feedback_result = last.value.feedback
              /\ rec.images = last.value.images

\* C10: for every session record r, after r was saved (the disk refusing
\* nothing) restore_session(r.session_id) returns a record equal to r.
C10_RoundTrip ==
    (/\ last.op \in {"create_persistent_session", "update_session_feedback"}
     /\ current_session # None
     /\ last.save \notin {"open_failed", "write_failed"})
        => RestoreResult(disk, current_session.session_id.v, "ok")
               = current_session

\* C11: restore_session(id) of a session whose file is missing, cannot be
\* read or cannot be parsed returns None without raising, and the current
\* session after the call is the one before it.
C11_FailedRestoreKeepsCurrent ==
    [][(last'.op = "restore_session" /\ \E id \in SessionIds, io \in ReadOutcomes :
            RestoreSession(id, io) /\ (io # "ok" \/ ~Readable(disk[id])))
        => /\ last'.outcome = "returned"
           /\ last'.value.result = None
           /\ current_session' = current_session]_vars

\* restore_session of a truncated (unparsable) file of another session
\* has returned None while a session is current
C11_Witness ==
    /\ last.op = "restore_session"
    /\ last.value.result = None
    /\ disk[last.value.id] = Truncated
    /\ current_session # None
    /\ current_session.session_id.v # last.value.id

\* restore_session of a missing file has returned None
C11_WitnessNotFound ==
    /\ last.op = "restore_session"
    /\ last.value.result = None
    /\ disk[last.value.id] = Absent
    /\ current_session # None
\* C13: once the feedback_result of a session is set (not None), no later
\* call changes it, in the current-session record or in the file; a second
\* update_session_feedback with another value is one of those calls.
C13_FeedbackWriteOnce ==
    [][\A id \in SessionIds :
        /\ (/\ IsCurrent(current_session, id)
            /\ current_session.feedback_result # None
            /\ IsCurrent(current_session', id))
               => current_session'.feedback_result
                      = current_session.feedback_result
        /\ (/\ Readable(disk[id])
            /\ FileRecord(disk[id]).feedback_result # None
            /\ Readable(disk'[id]))
               => FileRecord(disk'[id]).feedback_result
                      = FileRecord(disk[id]).feedback_result]_vars
UpdateStep ==
    \E target \in SessionIds, feedback \in Feedbacks, images \in ImageLists,
       io \in IoOutcomes : UpdateSessionFeedback(target, feedback, images, io)

\* C16: when update_session_feedback has returned, the last_heartbeat of
\* the current session is the time of the call.
C16_FeedbackRefreshesHeartbeat ==
    [][(UpdateStep /\ current_session' # None)
        => current_session'.last_heartbeat = PyFloat(now')]_vars

(***************************************************************************)
(* SpecBeat: the heartbeat over three intervals, under fair scheduling.    *)
(* The event loop runs every task that is ready before it waits for the    *)
(* next timer, so the clock does not pass a sleep that is over.            *)
(***************************************************************************)
MaxBeatTime == 90

\* A task the event loop has to run before it goes back to waiting
Ready(t) ==
    \/ tasks[t].st \in {"pending", "woken"}
    \/ tasks[t].st = "sleeping" /\ (tasks[t].cancel \/ now >= tasks[t].wake)

\* The event loop waits in its selector until the next timer is due
BeatClock ==
    /\ Alive
    /\ UNCHANGED <<loss, wrapper, cleanup, purged, peer>>
    /\ \A t \in TaskIds : ~Ready(t)
    /\ now + heartbeat_interval <= MaxBeatTime
    /\ now' = now + heartbeat_interval
    /\ UNCHANGED <<is_persistent_mode, is_running, heartbeat_task,
                   current_session, tasks, disk, issued, proc, stop_returned, last>>

NextBeat ==
    \/ EnablePersistentMode
    \/ StartHeartbeat
    \/ \E t \in TaskIds : TimerFire(t)
    \/ \E t \in TaskIds, io \in IoOutcomes : HeartbeatStep(t, io)
    \/ BeatClock
    \/ \E ctx \in Contexts, io \in OpenOutcomes : Stop(ctx, io)
    \/ \E id \in SessionIds, dir \in ProjectDirs, io \in OpenOutcomes :
            CreateSession(id, dir, "test", 0, io)

\* Every ready task is run, and time passes
FairBeat ==
    /\ \A t \in TaskIds :
          /\ WF_vars(TimerFire(t))
          /\ WF_vars(\E io \in IoOutcomes : HeartbeatStep(t, io))
    /\ WF_vars(BeatClock)

SpecBeat == Init /\ [][NextBeat]_vars /\ FairBeat

(***************************************************************************)
(* Claims checked under SpecBeat                                           *)
(***************************************************************************)
\* The times from which three more intervals fit below MaxBeatTime
BeatStarts ==
    {s \in 0..MaxBeatTime :
        s % heartbeat_interval = 0 /\ s + 2 * heartbeat_interval <= MaxBeatTime}

Running == is_running /\ current_session # None

\* A tick has just set last_heartbeat to at least x
TickedAt(x) ==
    /\ last.op = "heartbeat"
    /\ current_session # None
    /\ current_session.last_heartbeat.v >= x

\* A step of a heartbeat task in which _send_heartbeat runs
TickStep ==
    /\ \E t \in TaskIds, io \in IoOutcomes : HeartbeatStep(t, io)
    /\ last'.op = "heartbeat"

TickTimes ==
    {s \in 0..MaxBeatTime :
        s % heartbeat_interval = 0 /\ s + heartbeat_interval <= MaxBeatTime}

\* A tick whose save failed
FailedTick == last.op = "heartbeat" /\ SaveFailed(last.save)

\* C19: a heartbeat tick whose save fails returns to the loop: the process
\* lives, is_running stays True and the task sleeps for the next tick,
\* which under fair scheduling follows unless stop() is called; a task
\* ends only when is_running is False or the task was cancelled, and only
\* stop() clears is_running or cancels a task.
C19_FailedTickSwallowed ==
    /\ [][(TickStep /\ SaveFailed(last'.save))
            => /\ last'.outcome = "returned"
               /\ proc' = "alive"
               /\ is_running /\ is_running'
               /\ \E t \in TaskIds :
                     /\ tasks'[t] # tasks[t]
                     /\ tasks'[t] = [st |-> "sleeping", cancel |-> FALSE,
                                     wake |-> now + heartbeat_interval]]_vars
    /\ [][\A t \in TaskIds :
            /\ (tasks[t].st # "done" /\ tasks'[t].st = "done")
                   => (~is_running \/ tasks[t].cancel)
            /\ ((is_running /\ ~is_running') \/ (~tasks[t].cancel /\ tasks'[t].cancel))
                   => last'.op = "stop"]_vars
    /\ \A s \in TickTimes :
          (FailedTick /\ is_running /\ now = s)
             ~> (~is_running \/ TickedAt(s + heartbeat_interval))

\* Two ticks in a row have failed to save: the file still holds the
\* last_heartbeat of the creation, the session in memory that of the
\* second tick
C19_Witness ==
    /\ is_running
    /\ FailedTick
    /\ current_session # None
    /\ current_session.last_heartbeat = PyFloat(2 * heartbeat_interval)
    /\ Readable(disk[current_session.session_id.v])
    /\ FileRecord(disk[current_session.session_id.v]).last_heartbeat = PyFloat(0)

(***************************************************************************)
(* Reconnection: handle_connection_loss and _test_connection               *)
(***************************************************************************)
reconnect_delay == 5
max_reconnect_attempts == 10

PyBool(b) == [py |-> "bool", v |-> b]

\* The values self.max_reconnect_attempts is given: the default and the
\* smaller ones of a test
TestLimits == {1, 3}
AttemptLimits == TestLimits \cup {max_reconnect_attempts}

\* The _test_connection in use: the stock method of the class, or the one
\* of a specific client ("implementation depends on the specific client")
ProbeImpls == {"stock", "client"}
\* What a probe of the connection gives: True, False, or an exception
ProbeAnswers == {"true", "false", "raises"}

\* _test_connection: the stock method returns True whatever the connection
TestConnection(probe, answer) == IF probe = "stock" THEN "true" ELSE answer

\* asyncio.sleep(d) returns after d or later
SleepLags == {0, 1}

\* `if not self.is_persistent_mode: return False`
LossEnabled_Always == TRUE
LossEnabled == is_persistent_mode

\* `await asyncio.sleep(self.reconnect_delay)` at the attempt `attempt`
SleepDelay_Growing(attempt) == reconnect_delay * (attempt + 1)
SleepDelay(attempt) == reconnect_delay

\* `for attempt in range(self.max_reconnect_attempts)`
MoreAttempts_OneMore(attempt, max) == attempt <= max
MoreAttempts(attempt, max) == attempt < max

\* `if await self._test_connection(): return True`; an exception of the
\* probe is caught by the try of the attempt and only logged
ProbeSucceeded_Never(ans) == FALSE
ProbeSucceeded(ans) == ans = "true"

\* handle_connection_loss from its call to its first suspension or return
LossBegin(caller, max, probe) ==
    LET call == [NoLoss EXCEPT !.caller = caller, !.max = max, !.probe = probe]
    IN IF ~LossEnabled \/ ~MoreAttempts(0, max)
       THEN [call EXCEPT !.pc = "returned", !.result = PyBool(FALSE)]
       ELSE [call EXCEPT !.pc = "sleeping", !.sleeps = <<SleepDelay(0)>>]

\* handle_connection_loss from the end of a sleep to the next sleep or the
\* return: one probe, which the connection answers with `answer`, after a
\* sleep that took `lag` longer than asked
LossAfterSleep(l, answer, lag) ==
    LET ans == TestConnection(l.probe, answer)
        woken == [l EXCEPT !.waited = @ + l.sleeps[Len(l.sleeps)] + lag,
                           !.probes = @ + 1,
                           !.failures = IF ans = "true" THEN @ ELSE @ + 1]
        next == l.attempt + 1
    IN IF ProbeSucceeded(ans)
       THEN [woken EXCEPT !.pc = "returned", !.result = PyBool(TRUE)]
       ELSE IF MoreAttempts(next, l.max)
            THEN [woken EXCEPT !.attempt = next,
                               !.sleeps = Append(@, SleepDelay(next))]
            ELSE [woken EXCEPT !.pc = "returned", !.result = PyBool(FALSE)]

\* handle_connection_loss called by a client of the manager
HandleConnectionLoss(max, probe) ==
    /\ Alive
    /\ UNCHANGED <<cleanup, purged, peer>>
    /\ loss.pc # "sleeping"
    /\ wrapper.pc \notin {"first", "reconnecting", "retry"}
    /\ loss' = LossBegin("direct", max, probe)
    /\ last' = Call("handle_connection_loss", loss'.pc, loss'.result, "none")
    /\ UNCHANGED <<is_persistent_mode, is_running, heartbeat_task,
                   current_session, tasks, disk, now, issued, proc, wrapper,
                   stop_returned>>

(***************************************************************************)
(* with_persistent_connection: the wrapper around a coroutine function     *)
(***************************************************************************)
\* What an invocation of the wrapped function ends with
Value(v) == [kind |-> "value", v |-> v]
\* An exception: its class and the words of str(e)
Error(type, msg) == [kind |-> "error", type |-> type, msg |-> msg]

\* asyncio.TimeoutError() carries no message: str(e) is empty
Errors ==
    {Error("ConnectionResetError", <<"Connection", "reset", "by", "peer">>),
     Error("OSError", <<"read", "TIMEOUT">>),
     Error("TimeoutError", <<>>),
     Error("ValueError", <<"bad", "value">>)}
FuncOutcomes == {Value("done")} \cup Errors

\* str.lower(), word by word
Lower(word) ==
    CASE word = "Connection" -> "connection"
      [] word = "TIMEOUT" -> "timeout"
      [] OTHER -> word
StrLower(msg) == [i \in DOMAIN msg |-> Lower(msg[i])]
\* `word in text`
Contains(text, word) == \E i \in DOMAIN text : text[i] = word

\* `"connection" in str(e).lower() or "timeout" in str(e).lower()`
IsConnectionIssue_Any(e) == TRUE
IsConnectionIssue(e) ==
    \/ Contains(StrLower(e.msg), "connection")
    \/ Contains(StrLower(e.msg), "timeout")

\* `if manager.is_persistent_mode and not manager.heartbeat_task`
NeedsHeartbeat == is_persistent_mode /\ heartbeat_task = NoTask

\* `if await manager.handle_connection_loss():`
RetryAllowed_Always(result) == TRUE
RetryAllowed(result) == result = PyBool(TRUE)

\* An exception of the retry is raised inside the except block: the try
\* statement it belongs to does not catch it again
RetryHandled_Again(e) == IsConnectionIssue(e)
RetryHandled(e) == FALSE

\* `return await func(*args, **kwargs)` of the retry
RetryOutcome_First(first, second) == first
RetryOutcome(first, second) == second

Ended(w, out) ==
    [w EXCEPT !.pc = IF out.kind = "value" THEN "returned" ELSE "raised",
              !.outcome = out]

\* The wrapper when handle_connection_loss has returned `result`: the
\* retry is invoked, or the bare `raise` re-raises the caught exception
WrapperAfterLoss(w, result) ==
    IF RetryAllowed(result)
    THEN [w EXCEPT !.pc = "retry", !.calls = @ + 1]
    ELSE Ended(w, w.first)

\* The wrapper is called: the heartbeat is started if need be and func is
\* invoked, running up to its first suspension
WrapperCall ==
    /\ Alive
    /\ UNCHANGED <<cleanup, purged, peer>>
    /\ wrapper.pc \in {"idle", "returned", "raised"}
    /\ loss.pc # "sleeping"
    /\ IF NeedsHeartbeat THEN StartHeartbeatBody
       ELSE UNCHANGED <<is_running, tasks, heartbeat_task, stop_returned>>
    /\ wrapper' = [NoWrapper EXCEPT !.pc = "first", !.calls = 1]
    /\ last' = Call("wrapper", "suspended", None, "none")
    /\ UNCHANGED <<is_persistent_mode, current_session, disk, now, issued,
                   proc, loss>>

\* An invocation of func ends with `out`
FuncEnds(out, max, probe) ==
    /\ Alive
    /\ UNCHANGED <<cleanup, purged, peer>>
    /\ wrapper.pc \in {"first", "retry"}
    /\ LET seen == IF wrapper.pc = "first"
                   THEN [wrapper EXCEPT !.first = out]
                   ELSE [wrapper EXCEPT !.second = out]
           handled == /\ out.kind = "error"
                      /\ IsConnectionIssue(out)
                      /\ wrapper.pc = "first" \/ RetryHandled(out)
           begun == LossBegin("wrapper", max, probe)
           counted == [seen EXCEPT !.losses = @ + 1, !.pc = "reconnecting"]
       IN /\ wrapper' =
                IF handled
                THEN IF begun.pc = "returned"
                     THEN WrapperAfterLoss(counted, begun.result)
                     ELSE counted
                ELSE IF wrapper.pc = "first" THEN Ended(seen, out)
                     ELSE Ended(seen, RetryOutcome(seen.first, out))
          /\ loss' = IF handled THEN begun ELSE loss
    /\ last' = Call("wrapper", wrapper'.pc, wrapper'.outcome, "none")
    /\ UNCHANGED <<is_persistent_mode, is_running, heartbeat_task,
                   current_session, tasks, disk, now, issued, proc,
                   stop_returned>>

\* The sleep of handle_connection_loss is over: the probe, then the next
\* sleep or the return to the caller, the wrapper going on at once
LossWake(answer, lag) ==
    /\ Alive
    /\ UNCHANGED <<cleanup, purged, peer>>
    /\ loss.pc = "sleeping"
    /\ loss' = LossAfterSleep(loss, answer, lag)
    /\ wrapper' = IF loss.caller = "wrapper" /\ loss'.pc = "returned"
                  THEN WrapperAfterLoss(wrapper, loss'.result)
                  ELSE wrapper
    /\ last' = Call("handle_connection_loss", loss'.pc, loss'.result, "none")
    /\ UNCHANGED <<is_persistent_mode, is_running, heartbeat_task,
                   current_session, tasks, disk, now, issued, proc,
                   stop_returned>>

(***************************************************************************)
(* SpecLoss: handle_connection_loss called directly, with every limit,     *)
(* probe and answer; a sleeping call is woken in the end.                  *)
(***************************************************************************)
NextLoss ==
    \/ EnablePersistentMode
    \/ \E max \in AttemptLimits, probe \in ProbeImpls :
            HandleConnectionLoss(max, probe)
    \/ \E answer \in ProbeAnswers, lag \in SleepLags : LossWake(answer, lag)

\* asyncio.sleep returns
FairLoss ==
    WF_vars(\E answer \in ProbeAnswers, lag \in SleepLags : LossWake(answer, lag))

SpecLoss == Init /\ [][NextLoss]_vars /\ FairLoss

(***************************************************************************)
(* SpecWrap: wrapped calls and their reconnection, with the heartbeat      *)
(* started and stopped around them.                                        *)
(***************************************************************************)
NextWrap ==
    \/ EnablePersistentMode
    \/ StartHeartbeat
    \/ \E t \in TaskIds : HeartbeatStep(t, "ok")
    \/ \E ctx \in Contexts : Stop(ctx, "ok")
    \/ \E answer \in ProbeAnswers, lag \in SleepLags : LossWake(answer, lag)
    \/ WrapperCall
    \/ \E out \in FuncOutcomes, max \in TestLimits, probe \in ProbeImpls :
            FuncEnds(out, max, probe)

SpecWrap == Init /\ [][NextWrap]_vars

(***************************************************************************)
(* Claims checked under SpecLoss                                           *)
(***************************************************************************)
HandleStep ==
    \E max \in AttemptLimits, probe \in ProbeImpls :
        HandleConnectionLoss(max, probe)

WakeStep ==
    \E answer \in ProbeAnswers, lag \in SleepLags : LossWake(answer, lag)

\* C22: with persistent mode off handle_connection_loss returns False in
\* the step of its call: no probe, no sleep, and no attribute of the
\* manager, task or file changed.
C22_LossNoOpUnlessPersistent ==
    [][(HandleStep /\ ~is_persistent_mode)
        => /\ loss'.pc = "returned"
           /\ loss'.result = PyBool(FALSE)
           /\ loss'.probes = 0
           /\ loss'.sleeps = <<>>
           /\ loss'.waited = 0
           /\ UNCHANGED <<is_persistent_mode, is_running, heartbeat_task,
                          current_session, tasks, disk, wrapper>>]_vars

\* handle_connection_loss has returned to its caller with persistent mode
\* off, the default limit and a probe that could have been asked
C22_Witness ==
    /\ ~is_persistent_mode
    /\ loss.pc = "returned"
    /\ loss.caller = "direct"
    /\ loss.max = max_reconnect_attempts
    /\ loss.probe = "client"

\* C23: in persistent mode handle_connection_loss makes at most
\* max_reconnect_attempts probes and returns in the end; it goes on only
\* while every probe so far has failed, returns True at the first probe
\* that succeeds, and returns False only when max_reconnect_attempts
\* probes have been made and all have failed.
C23_LossBoundedAndExact ==
    /\ [](/\ loss.probes <= loss.max
          /\ loss.pc = "sleeping"
                => loss.failures = loss.probes /\ loss.probes < loss.max
          /\ (loss.pc = "returned" /\ loss.probes > 0)
                => /\ loss.result = PyBool(TRUE)
                        <=> loss.failures = loss.probes - 1
                   /\ loss.result = PyBool(FALSE)
                        <=> (loss.failures = loss.probes /\ loss.probes = loss.max))
    /\ (loss.pc = "sleeping") ~> (loss.pc = "returned")

\* With the default limit, the third probe succeeded after two that
\* failed, and the call returned True
C23_Witness ==
    /\ loss.pc = "returned"
    /\ loss.max = max_reconnect_attempts
    /\ loss.probes = 3
    /\ loss.failures = 2
    /\ loss.result = PyBool(TRUE)

\* C24: when every probe fails, handle_connection_loss with a limit of n
\* returns False after exactly n probes, having slept n times, each time
\* for the same reconnect_delay, so for at least n * reconnect_delay in
\* total.
C24_FixedDelayBetweenProbes ==
    /\ \A i \in 1..Len(loss.sleeps) : loss.sleeps[i] = reconnect_delay
    /\ loss.pc = "sleeping" => Len(loss.sleeps) = loss.probes + 1
    /\ (loss.pc = "returned" /\ loss.probes > 0 /\ loss.failures = loss.probes)
          => /\ loss.result = PyBool(FALSE)
             /\ loss.probes = loss.max
             /\ Len(loss.sleeps) = loss.max
             /\ loss.waited >= loss.max * reconnect_delay

\* Three probes allowed, three made, all failed: the call has returned
\* False after three sleeps
C24_Witness ==
    /\ loss.pc = "returned"
    /\ loss.max = 3
    /\ loss.probes = 3
    /\ loss.failures = 3
    /\ Len(loss.sleeps) = 3
    /\ loss.result = PyBool(FALSE)

(***************************************************************************)
(* Claims checked under SpecWrap                                           *)
(***************************************************************************)
\* The wrapped call is over
WrapperEnded == wrapper.pc \in {"returned", "raised"}
\* The reconnection of the current wrapped call has returned `b`
LossReturned(b) ==
    /\ wrapper.losses >= 1
    /\ loss.caller = "wrapper"
    /\ loss.pc = "returned"
    /\ loss.result = PyBool(b)

\* C25: when the first invocation of func fails with an error whose
\* message names a connection or a timeout and handle_connection_loss
\* returns True, func is invoked exactly once more and the wrapped call
\* ends as that second invocation ends: with its value, or with its
\* exception.
C25_RetryOutcomeIsSecondCall ==
    LossReturned(TRUE)
      => /\ wrapper.calls = 2
         /\ wrapper.pc \in {"retry", "returned", "raised"}
         /\ wrapper.pc = "retry" => wrapper.second = None
         /\ WrapperEnded
               => /\ wrapper.second \in FuncOutcomes
                  /\ wrapper.outcome = wrapper.second
                  /\ wrapper.pc = "returned" <=> wrapper.second.kind = "value"

\* After a reconnection that succeeded, the retry raised a ValueError and
\* the wrapped call ended with it, not with the first error
C25_Witness ==
    /\ LossReturned(TRUE)
    /\ wrapper.pc = "raised"
    /\ wrapper.first.kind = "error"
    /\ wrapper.first.type = "ConnectionResetError"
    /\ wrapper.second.kind = "error"
    /\ wrapper.outcome.type = "ValueError"

\* C26: one wrapped call makes at most one call of handle_connection_loss
\* and at most two invocations of func: a first invocation that fails with
\* a connection or timeout error is followed by exactly one reconnection,
\* and a retry that fails the same way is followed by none.
C26_AtMostOneReconnection ==
    /\ wrapper.losses <= 1
    /\ wrapper.calls <= 2
    /\ wrapper.calls = 2 => wrapper.losses = 1
    /\ (wrapper.first # None /\ wrapper.first.kind = "error"
           /\ IsConnectionIssue(wrapper.first))
          => wrapper.losses = 1
    /\ wrapper.pc \in {"reconnecting", "retry"} => wrapper.losses = 1

\* The retry itself failed with a connection error: the wrapped call
\* raised it after two invocations and one reconnection
C26_Witness ==
    /\ wrapper.pc = "raised"
    /\ wrapper.calls = 2
    /\ wrapper.losses = 1
    /\ wrapper.second # None
    /\ wrapper.second.kind = "error"
    /\ IsConnectionIssue(wrapper.second)

\* str(e), lowered, has the word
MessageNames(e, word) == \E i \in DOMAIN e.msg : Lower(e.msg[i]) = word

\* C27: when func fails with an error whose message names neither a
\* connection nor a timeout, the wrapped call raises that same error,
\* handle_connection_loss is not called and func is not invoked again.
C27_OtherErrorsPropagate ==
    (wrapper.first # None /\ wrapper.first.kind = "error"
       /\ ~MessageNames(wrapper.first, "connection")
       /\ ~MessageNames(wrapper.first, "timeout"))
      => /\ wrapper.pc = "raised"
         /\ wrapper.outcome = wrapper.first
         /\ wrapper.losses = 0
         /\ wrapper.calls = 1
         /\ wrapper.second = None

\* func raised ValueError("bad value") and the wrapped call raised it
C27_Witness ==
    /\ wrapper.pc = "raised"
    /\ wrapper.first # None
    /\ wrapper.first.kind = "error"
    /\ wrapper.first.type = "ValueError"
    /\ wrapper.outcome = wrapper.first
    /\ wrapper.losses = 0

\* C28: when func fails with a connection or timeout error and
\* handle_connection_loss returns False, whether after all its probes
\* failed or at once because persistent mode is off, the wrapped call
\* raises the first error unchanged, without invoking func again and
\* without returning a value.
C28_FailedReconnectReraises ==
    LossReturned(FALSE)
      => /\ wrapper.pc = "raised"
         /\ wrapper.outcome = wrapper.first
         /\ wrapper.outcome.kind = "error"
         /\ wrapper.calls = 1
         /\ wrapper.second = None

\* Persistent mode, three probes that all failed: the wrapped call raised
\* the first error
C28_Witness ==
    /\ LossReturned(FALSE)
    /\ is_persistent_mode
    /\ loss.probes = 3
    /\ loss.failures = 3
    /\ wrapper.pc = "raised"
    /\ wrapper.outcome = wrapper.first

\* Persistent mode off: handle_connection_loss returned False without a
\* probe and the wrapped call raised the first error
C28_WitnessNotPersistent ==
    /\ LossReturned(FALSE)
    /\ ~is_persistent_mode
    /\ loss.probes = 0
    /\ wrapper.pc = "raised"

\* A wrapped function is invoked
WrapperStep == wrapper.pc # "first" /\ wrapper'.pc = "first"

\* C29: when a wrapped function is invoked in persistent mode the
\* heartbeat is running as the function starts: it was running already or
\* the wrapper has started it, also after a start_heartbeat and a stop.
C29_WrapperStartsHeartbeat ==
    [][(WrapperStep /\ is_persistent_mode) => is_running']_vars

\* What holds: the wrapper starts the heartbeat when no heartbeat task was
\* ever created, and leaves the heartbeat alone otherwise
C29_StartsOnlyWithoutTask ==
    [][(WrapperStep /\ is_persistent_mode)
         => IF heartbeat_task = NoTask
            THEN is_running' /\ heartbeat_task' # NoTask
            ELSE UNCHANGED <<is_running, heartbeat_task, tasks>>]_vars

(***************************************************************************)
(* Claims checked under SpecStore: the listing                             *)
(***************************************************************************)
\* The records the store holds whose last heartbeat is inside the window
RecentRecords(d, t) ==
    {FileRecord(d[id]) : id \in {i \in StoredIds(d) :
        Readable(d[i]) /\ InActiveWindow(FileRecord(d[i]), t)}}
\* The records a listing returned
Listed(seq) == {seq[i] : i \in DOMAIN seq}

\* C30: get_active_sessions returns exactly the stored records whose last
\* heartbeat is less than 86400 seconds old, in whatever order the
\* directory lists the files.
C30_ListsExactlyRecentRecords ==
    \A order \in Listings(disk) :
        Listed(ActiveSessions(disk, order, now)) = RecentRecords(disk, now)

\* What holds: nothing is listed that is not a recent record, and with
\* every stored file complete the listing is exact
C30_ExactWhenAllReadable ==
    \A order \in Listings(disk) :
        /\ Listed(ActiveSessions(disk, order, now)) \subseteq RecentRecords(disk, now)
        /\ (\A id \in StoredIds(disk) : Readable(disk[id]))
             => Listed(ActiveSessions(disk, order, now)) = RecentRecords(disk, now)

\* C37: a session file that cannot be parsed does not hide the others:
\* with one such file in the store, get_active_sessions still returns the
\* record of every other file whose last heartbeat is inside the window,
\* wherever the directory lists the bad file.
C37_BadFileHidesNothing ==
    (Cardinality({id \in StoredIds(disk) : ~Readable(disk[id])}) = 1)
      => \A order \in Listings(disk), id \in StoredIds(disk) :
            (Readable(disk[id]) /\ InActiveWindow(FileRecord(disk[id]), now))
              => \E i \in DOMAIN ActiveSessions(disk, order, now) :
                    ActiveSessions(disk, order, now)[i] = FileRecord(disk[id])

\* What holds: the records of the files listed before the bad one are
\* returned
C37_ListedUpToBadFile ==
    \A order \in Listings(disk) :
        \A k \in DOMAIN order :
            (/\ \A j \in 1..k : Readable(disk[order[j]])
             /\ InActiveWindow(FileRecord(disk[order[k]]), now))
              => FileRecord(disk[order[k]])
                    \in Listed(ActiveSessions(disk, order, now))

(***************************************************************************)
(* cleanup_old_sessions: the sweep over the session files. Within its      *)
(* process the method is synchronous; against another process each file    *)
(* operation (the read, the unlink) is a step of its own.                  *)
(***************************************************************************)
\* `max_age_hours: int = 24` and the values it is called with
DefaultMaxAgeHours == 24
MaxAgeHours == {DefaultMaxAgeHours}
SecondsPerHour == 3600

\* The clock a day after the sessions were written: at the end of the
\* window and just past it
DayTimes == {ActiveWindow, ActiveWindow + 1}

\* `current_time - last_activity > max_age_seconds`
OverAge_OrEqual(rec, t, max_age_seconds) ==
    t - rec.last_heartbeat.v >= max_age_seconds
OverAge(rec, t, max_age_seconds) ==
    t - rec.last_heartbeat.v > max_age_seconds

UnlinkOutcomes == {"ok", "unlink_fails"}

\* The for loop goes to its next file, or the method returns
NextFile(c, d) ==
    IF c.files = <<>> THEN [c EXCEPT !.pc = "returned", !.after = d]
    ELSE [c EXCEPT !.pc = "reading"]

\* The inner `except Exception`: the error on file f is logged and the
\* loop goes on with the next file
AfterError_Abort(c, f, d) ==
    [c EXCEPT !.caught = @ \cup {f}, !.files = <<>>, !.pc = "returned",
              !.after = d]
AfterError_Raise(c, f, d) ==
    [c EXCEPT !.raised = TRUE, !.files = <<>>, !.pc = "returned", !.after = d]
AfterError(c, f, d) ==
    NextFile([c EXCEPT !.caught = @ \cup {f}, !.files = Tail(@)], d)

\* The file f is unlinked and the loop goes on with the next file: glob
\* has listed the directory before the first file is handled
AfterUnlink_Stop(c, f, d) ==
    [c EXCEPT !.unlinked = @ \cup {f}, !.files = <<>>, !.pc = "returned",
              !.after = d]
AfterUnlink(c, f, d) ==
    NextFile([c EXCEPT !.unlinked = @ \cup {f}, !.files = Tail(@)], d)

\* What is kept of a call that has returned
Summary(c) ==
    IF c.pc = "returned"
    THEN [current_time |-> c.current_time,
          max_age_seconds |-> c.max_age_seconds,
          caught |-> c.caught, after |-> c.after]
    ELSE <<>>

\* A cleanup_old_sessions call of process p is between its listing and
\* its return
Sweeping(p) == cleanup[p].pc \in {"reading", "unlinking"}

\* The call, up to the listing of the directory
CleanupBegin(p, max_age_hours, order) ==
    /\ Alive
    /\ cleanup[p].pc \in {"idle", "returned"}
    /\ order \in Listings(disk)
    /\ LET others == {q \in Procs \ {p} : Sweeping(q)}
           begun == NextFile([NoCleanup EXCEPT
                        !.current_time = now,
                        !.max_age_seconds = max_age_hours * SecondsPerHour,
                        !.files = order,
                        !.before = disk,
                        !.prev = Summary(cleanup[p]),
                        !.joint = others # {}], disk)
       IN cleanup' = [q \in Procs |->
                        IF q = p THEN begun
                        ELSE IF q \in others /\ begun.pc # "returned"
                             THEN [cleanup[q] EXCEPT !.joint = TRUE]
                             ELSE cleanup[q]]
    /\ last' = Call("cleanup_old_sessions", cleanup'[p].pc, p, "none")
    /\ UNCHANGED <<is_persistent_mode, is_running, heartbeat_task,
                   current_session, tasks, disk, now, issued, proc, loss,
                   wrapper, purged, peer, stop_returned>>

\* open and json.load of the next file, and the test of its age
CleanupRead(p, io) ==
    /\ Alive
    /\ cleanup[p].pc = "reading"
    /\ LET c == cleanup[p]
           f == Head(c.files)
       IN cleanup' = [cleanup EXCEPT ![p] =
            IF io # "ok" \/ ~Readable(disk[f]) THEN AfterError(c, f, disk)
            ELSE IF OverAge(FileRecord(disk[f]), c.current_time,
                            c.max_age_seconds)
                 THEN [c EXCEPT !.pc = "unlinking"]
                 ELSE NextFile([c EXCEPT !.files = Tail(@)], disk)]
    /\ last' = Call("cleanup_old_sessions", cleanup'[p].pc, p, "none")
    /\ UNCHANGED <<is_persistent_mode, is_running, heartbeat_task,
                   current_session, tasks, disk, now, issued, proc, loss,
                   wrapper, purged, peer, stop_returned>>

\* session_file.unlink(): raises when the file is gone or the directory
\* refuses
CleanupUnlink(p, io) ==
    /\ Alive
    /\ cleanup[p].pc = "unlinking"
    /\ LET c == cleanup[p]
           f == Head(c.files)
       IN IF io # "ok" \/ disk[f] = Absent
          THEN /\ cleanup' = [cleanup EXCEPT ![p] = AfterError(c, f, disk)]
               /\ UNCHANGED <<disk, purged>>
          ELSE /\ disk' = [disk EXCEPT ![f] = Absent]
               /\ cleanup' = [cleanup EXCEPT ![p] = AfterUnlink(c, f, disk')]
               /\ purged' = purged \cup {f}
    /\ last' = Call("cleanup_old_sessions", cleanup'[p].pc, p, "none")
    /\ UNCHANGED <<is_persistent_mode, is_running, heartbeat_task,
                   current_session, tasks, now, issued, proc, loss,
                   wrapper, peer, stop_returned>>

\* A day goes by
DaysPass(t) ==
    /\ Alive
    /\ t \in DayTimes
    /\ t > now
    /\ now' = t
    /\ UNCHANGED <<is_persistent_mode, is_running, heartbeat_task,
                   current_session, tasks, disk, issued, proc, loss, wrapper,
                   cleanup, purged, peer, stop_returned, last>>

\* The manager's own process is not inside cleanup_old_sessions
OwnQuiet == ~Sweeping("own")

(***************************************************************************)
(* SpecPurge: one process. Sessions are written, a day goes by, the store  *)
(* is swept; files fail to open and to unlink.                             *)
(***************************************************************************)
NextPurge ==
    \/ \E id \in SessionIds, dir \in ProjectDirs, gap \in ReadGaps,
          io \in OpenOutcomes :
            OwnQuiet /\ CreateSession(id, dir, "test", gap, io)
    \/ \E target \in SessionIds :
            OwnQuiet /\ UpdateSessionFeedback(target, "looks good", <<>>, "ok")
    \/ \E t \in DayTimes : DaysPass(t)
    \/ \E hours \in MaxAgeHours, order \in Listings(disk) :
            CleanupBegin("own", hours, order)
    \/ \E io \in OpenOutcomes : CleanupRead("own", io)
    \/ \E io \in UnlinkOutcomes : CleanupUnlink("own", io)

SpecPurge == Init /\ [][NextPurge]_vars

(***************************************************************************)
(* Claims checked under SpecPurge                                          *)
(***************************************************************************)
\* The cleanup_old_sessions call of process p returns
CleanupReturns(p) ==
    /\ cleanup'[p] # cleanup[p]
    /\ cleanup'[p].pc = "returned"

\* The record that file id held when the sweep of c began was older than
\* the age the sweep was called with
WasOld(c, id) ==
    /\ Readable(c.before[id])
    /\ c.current_time - FileRecord(c.before[id]).last_heartbeat.v
            > c.max_age_seconds

\* The store after the sweep c: the files of the records that were old are
\* gone, but for those whose handling raised; every other file is as it was
Swept(c, d) ==
    \A id \in SessionIds :
        IF WasOld(c, id) /\ id \notin c.caught
        THEN d[id] = Absent /\ id \in c.unlinked
        ELSE d[id] = c.before[id] /\ id \notin c.unlinked

\* C31: when cleanup_old_sessions returns, every stored record older than
\* max_age_hours has been removed and every other file is untouched; a
\* file that could not be read or unlinked stays, the sweep goes on with
\* the files after it, and nothing is raised to the caller.
C31_SweepRemovesOldOnly ==
    [][CleanupReturns("own")
         => /\ ~cleanup'["own"].raised
            /\ Swept(cleanup'["own"], disk')]_vars

\* Two old records: the first could not be unlinked and is still there,
\* the second was removed
C31_Witness ==
    /\ cleanup["own"].pc = "returned"
    /\ WasOld(cleanup["own"], "1")
    /\ WasOld(cleanup["own"], "2")
    /\ cleanup["own"].caught # {}
    /\ cleanup["own"].unlinked # {}
    /\ \E id \in SessionIds : disk[id] = Absent /\ id \in cleanup["own"].unlinked

\* The sweep c follows the one before it with no write in between: it
\* found the store as the sweep before had left it, and was called with
\* the same max_age_hours
Consecutive(c) ==
    /\ c.prev # <<>>
    /\ c.before = c.prev.after
    /\ c.max_age_seconds = c.prev.max_age_seconds

\* The session files of a store
FileSet(d) == {id \in SessionIds : d[id] # Absent}

\* C32 as stated: the second of two consecutive sweeps with no write in
\* between leaves the set of session files that the first had left.
C32_SecondSweepChangesNothing ==
    [][(CleanupReturns("own") /\ Consecutive(cleanup'["own"]))
         => FileSet(disk') = FileSet(cleanup'["own"].prev.after)]_vars

\* C32, amended: the second of two consecutive sweeps with no write in
\* between removes only files that the first one failed on or whose
\* record was not yet older than the limit at the first one's reading of
\* the clock, and adds none; when both read the same time and the first
\* met no failure, the second leaves the store exactly as the first did.
C32_SecondSweepRemovesOnlyNewlyOld ==
    [][(CleanupReturns("own") /\ Consecutive(cleanup'["own"]))
         => LET c == cleanup'["own"]
                first == [c EXCEPT !.current_time = c.prev.current_time]
            IN /\ FileSet(disk') \subseteq FileSet(c.prev.after)
               /\ \A id \in FileSet(c.prev.after) \ FileSet(disk') :
                      id \in c.prev.caught \/ ~WasOld(first, id)
               /\ (c.current_time = c.prev.current_time /\ c.prev.caught = {})
                     => disk' = c.prev.after]_vars

\* A first sweep removed a file without a failure, and a second one at
\* the same time found the store as the first had left it and changed
\* nothing
C32_Witness ==
    LET c == cleanup["own"]
    IN /\ c.pc = "returned"
       /\ Consecutive(c)
       /\ c.current_time = c.prev.current_time
       /\ c.prev.caught = {}
       /\ FileSet(c.prev.after) # {}
       /\ purged # {}
       /\ c.unlinked = {}
       /\ disk = c.prev.after

\* C35: a session file that cleanup_old_sessions has removed does not
\* come back: no later save of the manager creates a file for that id
\* again.
C35_PurgedStaysGone ==
    [][\A id \in purged : disk[id] = Absent => disk'[id] = Absent]_vars

\* get_active_sessions, had it been called on the store that the sweep c
\* found, at the time the sweep read, returns the record of file id
ListedAt(c, id) ==
    \E order \in Listings(c.before) :
        FileRecord(c.before[id])
            \in Listed(ActiveSessions(c.before, order, c.current_time))

\* C36: at one reading of the clock and with the limit of 24 hours, every
\* readable stored record is either returned by get_active_sessions or
\* removed by cleanup_old_sessions: never neither, never both.
C36_ListedOrPurged ==
    [][(/\ CleanupReturns("own")
        /\ cleanup'["own"].max_age_seconds = ActiveWindow
        /\ cleanup'["own"].caught = {})
         => \A id \in FileSet(cleanup'["own"].before) :
               ListedAt(cleanup'["own"], id)
                  <=> id \notin cleanup'["own"].unlinked]_vars

\* What holds: no record is both listed and removed, and a record is
\* neither only when its age is the limit exactly
C36_NeverBoth ==
    [][(/\ CleanupReturns("own")
        /\ cleanup'["own"].max_age_seconds = ActiveWindow
        /\ cleanup'["own"].caught = {})
         => \A id \in FileSet(cleanup'["own"].before) :
               LET c == cleanup'["own"]
                   age == c.current_time
                            - FileRecord(c.before[id]).last_heartbeat.v
               IN /\ ~(ListedAt(c, id) /\ id \in c.unlinked)
                  /\ (~ListedAt(c, id) /\ id \notin c.unlinked)
                        <=> age = ActiveWindow]_vars

(***************************************************************************)
(* SpecShare: two processes sweep the same store, their file operations    *)
(* interleaved; the store is written only while no sweep is on.            *)
(***************************************************************************)
NoSweep == \A p \in Procs : ~Sweeping(p)

NextShare ==
    \/ \E id \in SessionIds, gap \in ReadGaps :
            NoSweep /\ CreateSession(id, "/tmp/proj", "test", gap, "ok")
    \/ \E t \in DayTimes : DaysPass(t)
    \/ \E p \in Procs, hours \in MaxAgeHours, order \in Listings(disk) :
            CleanupBegin(p, hours, order)
    \/ \E p \in Procs : CleanupRead(p, "ok")
    \/ \E p \in Procs : CleanupUnlink(p, "ok")

SpecShare == Init /\ [][NextShare]_vars

(***************************************************************************)
(* Claims checked under SpecShare                                          *)
(***************************************************************************)
OtherProc(p) == CHOOSE q \in Procs : q # p

\* Of two sweeps that ran together, the store that the first to begin
\* found, and the later of their two readings of the clock
JointBefore(c1, c2) ==
    IF FileSet(c2.before) \subseteq FileSet(c1.before) THEN c1.before
    ELSE c2.before
JointTime(c1, c2) ==
    IF c1.current_time >= c2.current_time THEN c1.current_time
    ELSE c2.current_time

\* The sweep of p returns and ends a pair of sweeps that ran together
JointSweepEnds(p) ==
    /\ CleanupReturns(p)
    /\ cleanup'[p].joint
    /\ cleanup'[OtherProc(p)].pc = "returned"
    /\ cleanup'[OtherProc(p)].joint

\* C33: when two processes sweep the same store with their steps
\* interleaved, neither call raises, and when both have returned the
\* store is as one sweep alone would have left it: the files of the old
\* records are gone, every other file is as it was.
C33_JointSweepAsOne ==
    [][\A p \in Procs :
         JointSweepEnds(p)
           => LET c1 == cleanup'[p]
                  c2 == cleanup'[OtherProc(p)]
                  single == [c1 EXCEPT !.before = JointBefore(c1, c2),
                                       !.current_time = JointTime(c1, c2)]
              IN /\ ~c1.raised /\ ~c2.raised
                 /\ \A id \in SessionIds :
                       IF WasOld(single, id) THEN disk'[id] = Absent
                       ELSE disk'[id] = single.before[id]]_vars

\* Both processes went for the same old file: one unlinked it, the other
\* found it gone and logged the error; both have returned
C33_Witness ==
    /\ \A p \in Procs : cleanup[p].pc = "returned" /\ cleanup[p].joint
    /\ \E p \in Procs, id \in SessionIds :
          /\ id \in cleanup[p].unlinked
          /\ id \in cleanup[OtherProc(p)].caught
          /\ WasOld(cleanup[p], id)
          /\ disk[id] = Absent

(***************************************************************************)
(* Claims checked under Spec: the heartbeat tasks                          *)
(***************************************************************************)
\* C38: create_persistent_session makes the new record the one current
\* session; from then on a heartbeat tick, update_session_feedback and
\* stop() change and save that record only, and the file of the session
\* that was current before stays as it was last saved.
C38_OnlyCurrentIsSaved ==
    [][/\ \A id \in SessionIds :
            disk'[id] # disk[id]
              => current_session' # None /\ current_session'.session_id.v = id
       /\ CreateStep
            => /\ current_session'.session_id.v = last'.value.id
               /\ last'.value.id \notin issued
               /\ \A id \in issued : disk'[id] = disk[id]
       /\ (current_session # None /\ ~CreateStep
              /\ last'.op # "restore_session")
            => /\ current_session' # None
               /\ current_session'.session_id = current_session.session_id]_vars

\* Session 2 was created after session 1: a tick has refreshed and saved
\* session 2, and the file of session 1 still has its old last_heartbeat
C38_Witness ==
    /\ last.op = "heartbeat"
    /\ current_session # None
    /\ current_session.session_id.v = "2"
    /\ Readable(disk["1"])
    /\ OnDisk(current_session)
    /\ FileRecord(disk["1"]).last_heartbeat.v < current_session.last_heartbeat.v

\* The heartbeat tasks that are alive and whose cancellation nobody has
\* asked for: they tick when their sleep ends while is_running holds
TickingTasks ==
    {t \in TaskIds : /\ tasks[t].st \in {"pending", "sleeping", "woken"}
                     /\ ~tasks[t].cancel}

\* C34: at most one heartbeat loop is alive at any time, and it is the
\* task self.heartbeat_task names, the one stop() cancels: also after two
\* start_heartbeat calls without a stop between them.
C34_OneHeartbeatLoop ==
    /\ Cardinality(TickingTasks) <= 1
    /\ \A t \in TickingTasks : t = heartbeat_task

(***************************************************************************)
(* A second process with a manager of its own on the same store: it takes  *)
(* over a session with restore_session and its heartbeat saves it. Seen    *)
(* from another process, a save is two steps: open(session_file, 'w')      *)
(* empties the file, and the text json.dump has written reaches the file   *)
(* when the `with` block closes it.                                        *)
(***************************************************************************)
\* restore_session(id) in the other process
PeerRestore(id) ==
    /\ Alive
    /\ peer.pc = "idle"
    /\ Readable(disk[id])
    /\ peer' = [peer EXCEPT !.current_session = FileRecord(disk[id])]
    /\ UNCHANGED <<is_persistent_mode, is_running, heartbeat_task,
                   current_session, tasks, disk, now, issued, proc, loss,
                   wrapper, cleanup, purged, stop_returned, last>>

\* A heartbeat tick of the other process, up to the open of the file
PeerSaveOpen ==
    /\ Alive
    /\ peer.pc = "idle"
    /\ peer.current_session # None
    /\ LET cur == SendHeartbeatSession(peer.current_session, now)
           f == cur.session_id.v
       IN /\ peer' = [pc |-> "writing", current_session |-> cur,
                      old |-> IF Readable(disk[f]) THEN FileRecord(disk[f])
                              ELSE None]
          /\ disk' = [disk EXCEPT ![f] = Truncated]
    /\ UNCHANGED <<is_persistent_mode, is_running, heartbeat_task,
                   current_session, tasks, now, issued, proc, loss, wrapper,
                   cleanup, purged, stop_returned, last>>

\* The dump is done and the file is closed
PeerSaveClose ==
    /\ Alive
    /\ peer.pc = "writing"
    /\ disk' = SaveSessionState(disk, peer.current_session, "ok")
    /\ peer' = [peer EXCEPT !.pc = "idle", !.old = None]
    /\ UNCHANGED <<is_persistent_mode, is_running, heartbeat_task,
                   current_session, tasks, now, issued, proc, loss, wrapper,
                   cleanup, purged, stop_returned, last>>

(***************************************************************************)
(* SpecPeer: the manager reads the store while the other process saves.    *)
(***************************************************************************)
NextPeer ==
    \/ ClockAdvance
    \/ \E id \in SessionIds :
            CreateSession(id, "/tmp/proj", "test", 0, "ok")
    \/ \E id \in SessionIds : RestoreSession(id, "ok")
    \/ \E order \in Listings(disk) : GetActiveSessions(order)
    \/ \E id \in SessionIds : PeerRestore(id)
    \/ PeerSaveOpen
    \/ PeerSaveClose

SpecPeer == Init /\ [][NextPeer]_vars

(***************************************************************************)
(* Claims checked under SpecPeer                                           *)
(***************************************************************************)
\* The file the other process is saving
PeerFile == peer.current_session.session_id.v

\* C39: a reader in one process never sees a half-written file of a save
\* in another: restore_session(id) returns the complete record the file
\* held before the save or the complete record being saved, and
\* get_active_sessions returns one of the two in its list.
C39_ReaderSeesCompleteRecord ==
    [][peer.pc = "writing"
         => /\ RestoreSession(PeerFile, "ok")
                 => last'.value.result \in {peer.old, peer.current_session}
            /\ \A order \in Listings(disk) :
                 GetActiveSessions(order)
                   => \E i \in DOMAIN last'.value :
                        last'.value[i] \in {peer.old, peer.current_session}]_vars

\* What holds: while no save is in progress every file the saves have
\* written is complete, and restore_session returns its record
C39_CompleteBetweenSaves ==
    [][peer.pc = "idle"
         => \A id \in StoredIds(disk) :
               RestoreSession(id, "ok")
                 => /\ Readable(disk[id])
                    /\ last'.value.result = FileRecord(disk[id])]_vars
====
